---- MODULE Spec2Model ----
(***************************************************************************)
(* Model of ai-service/main.py: the two POST handlers analyze_data and     *)
(* analyze_data_legacy and the six analyzers they run over one dataset.    *)
(*                                                                         *)
(* Numbers.  The code computes in IEEE doubles; the model computes the     *)
(* same quantities exactly, as reduced fractions n/d (Rat), as square      *)
(* roots of fractions (a z-score, a standard deviation) or as NaN.  The    *)
(* datasets of the model hold small integers, for which the comparisons    *)
(* the code makes (z > 3, |r| > 0.3, ss_total > 0, |start| > 1e-10) have   *)
(* the same outcome in both arithmetics except on exact ties.              *)
(***************************************************************************)
EXTENDS Integers, Sequences, FiniteSets, TLC

VARIABLES
    endpoint,      \* which route the request was posted to
    request,       \* the DatasetRequest body: [data, columns]
    pc,            \* position of the handler
    df,            \* the parsed DataFrame (NoFrame before parsing)
    correlations, trends, anomalies, predictions, clusters, statistics,
                   \* the handler's locals (Unset until assigned)
    exc,           \* the exception caught by the handler's except clause
    tried,         \* analyzer name -> columns its computation was run on
    log,           \* the logger.error records written so far
    returned,      \* the analyzers that have returned to the handler
    response       \* what the client receives (NoResponse until the end)

vars == <<endpoint, request, pc, df, correlations, trends, anomalies,
          predictions, clusters, statistics, exc, tried, log, returned, response>>

-----------------------------------------------------------------------------
(* Exact arithmetic *)

Abs(x) == IF x < 0 THEN -x ELSE x

Sign(x) == IF x < 0 THEN -1 ELSE IF x > 0 THEN 1 ELSE 0

RECURSIVE Gcd(_, _)
Gcd(a, b) == IF b = 0 THEN Abs(a) ELSE Gcd(b, a % b)

\* The fraction n/d in lowest terms with a positive denominator (d # 0).
Rat(n, d) ==
    LET g == Gcd(n, d)
        s == IF d < 0 THEN -1 ELSE 1
    IN  [k |-> "rat", n |-> s * (n \div g), d |-> s * (d \div g)]

Int2Rat(i) == [k |-> "rat", n |-> i, d |-> 1]

NaN == [k |-> "nan", n |-> 0, d |-> 1]

IsNaN(x) == x.k = "nan"

\* The non-negative square root of the fraction n/d.
Sqrt(r) == [k |-> "sqrt", n |-> r.n, d |-> r.d]

RatMul(a, b) ==
    LET g1 == Gcd(a.n, b.d)
        g2 == Gcd(b.n, a.d)
    IN  IF a.n = 0 \/ b.n = 0 THEN Int2Rat(0)
        ELSE Rat((a.n \div g1) * (b.n \div g2), (a.d \div g2) * (b.d \div g1))

\* a / b for b # 0
RatDiv(a, b) == RatMul(a, Rat(b.d, b.n))

RatAdd(a, b) ==
    LET g == Gcd(a.d, b.d)
    IN  Rat(a.n * (b.d \div g) + b.n * (a.d \div g), (a.d \div g) * b.d)

RatNeg(a) == [a EXCEPT !.n = -a.n]

RatSub(a, b) == RatAdd(a, RatNeg(b))

RatAbs(a) == [a EXCEPT !.n = Abs(a.n)]

\* Sign of a/b - c/d for a, c >= 0 and b, d > 0, by continued fractions: no
\* product is formed, so no intermediate value exceeds the operands.
RECURSIVE CmpPos(_, _, _, _)
CmpPos(a, b, c, d) ==
    LET qa == a \div b
        qc == c \div d
        ra == a % b
        rc == c % d
    IN  IF qa # qc THEN Sign(qa - qc)
        ELSE IF ra = 0 /\ rc = 0 THEN 0
        ELSE IF ra = 0 THEN -1
        ELSE IF rc = 0 THEN 1
        ELSE CmpPos(d, rc, b, ra)

\* Sign of a - b for fractions a, b
RatCmp(a, b) ==
    IF a.n < 0 /\ b.n >= 0 THEN -1
    ELSE IF a.n >= 0 /\ b.n < 0 THEN 1
    ELSE IF a.n >= 0 THEN CmpPos(a.n, a.d, b.n, b.d)
    ELSE CmpPos(-b.n, b.d, -a.n, a.d)

RatLt(a, b) == RatCmp(a, b) < 0

RatGt(a, b) == RatCmp(a, b) > 0

\* Sum of s[lo..hi], by halving
RECURSIVE SumRange(_, _, _)
SumRange(s, lo, hi) ==
    IF lo > hi THEN 0
    ELSE IF lo = hi THEN s[lo]
    ELSE LET mid == (lo + hi) \div 2
         IN  SumRange(s, lo, mid) + SumRange(s, mid + 1, hi)

SeqSum(s) == SumRange(s, 1, Len(s))

-----------------------------------------------------------------------------
(* The request body.  A cell of a row is a number, a string or null; a row  *)
(* is an ordered dict, here a sequence of [key, val] entries.               *)

Num(v) == [t |-> "num", v |-> v]

Str(v) == [t |-> "str", v |-> v]

None == [t |-> "none", v |-> 0]

NaNCell == [t |-> "nan", v |-> 0]

Absent == [t |-> "absent", v |-> 0]

\* Bounds of the datasets the model posts.
MaxCols == 3

BigRows == 28

RowCounts == {0, 1, 9, 10, 11, BigRows}

\* The columns a dataset is assembled from, each named after its shape.
Shapes == {"flat", "spike", "pair", "uneven", "ramp", "gap", "text", "wave"}

\* The cell of column `shape` in row i (0-based) of an n-row dataset; Absent
\* when the row's dict has no such key.
ShapeCell(shape, i, n) ==
    CASE shape = "flat"   -> Num(5)
      [] shape = "spike"  -> IF i = n - 1 THEN Num(500) ELSE Num(5)
      [] shape = "pair"   -> IF i < 2 THEN Num(9) ELSE Num(2)
      [] shape = "uneven" -> IF i = 0 THEN Num(4) ELSE IF i = 1 THEN Num(5) ELSE Num(0)
      [] shape = "ramp"   -> Num(i)
      [] shape = "gap"    -> IF i = 0 THEN Absent ELSE IF i = 2 THEN None ELSE Num(n - i)
      [] shape = "text"   -> Str(i % 2)
      [] shape = "wave"   -> IF i % 5 = 0 THEN Num(1) ELSE Num(0)

MakeRow(cols, i, n) ==
    LET all == [j \in 1..Len(cols) |-> [key |-> cols[j], val |-> ShapeCell(cols[j], i, n)]]
    IN  SelectSeq(all, LAMBDA e : e.val # Absent)

MakeData(cols, n) == [r \in 1..n |-> MakeRow(cols, r - 1, n)]

ColumnChoices ==
    {s \in UNION {[1..k -> Shapes] : k \in 0..MaxCols} :
        \A i, j \in DOMAIN s : i # j => s[i] # s[j]}

Requests ==
    {[data |-> MakeData(cols, n), columns |-> cols] : cols \in ColumnChoices, n \in RowCounts}

-----------------------------------------------------------------------------
(* pd.DataFrame(dataset.data) and select_dtypes *)

Range(s) == {s[i] : i \in DOMAIN s}

RowKeys(row) == [j \in 1..Len(row) |-> row[j].key]

\* Column labels in order of first appearance over the rows: by the first
\* row that has the key, then by the key's position in that row.
FrameColumns(data) ==
    LET keys     == UNION {Range(RowKeys(data[i])) : i \in DOMAIN data}
        has(i, c) == c \in Range(RowKeys(data[i]))
        first(c) == CHOOSE i \in DOMAIN data :
                        has(i, c) /\ \A h \in 1..(i - 1) : ~has(h, c)
        at(c)    == CHOOSE j \in DOMAIN data[first(c)] : data[first(c)][j].key = c
        before(b, c) == first(b) < first(c) \/ (first(b) = first(c) /\ at(b) < at(c))
    IN  [p \in 1..Cardinality(keys) |->
            CHOOSE c \in keys : Cardinality({b \in keys : before(b, c)}) = p - 1]

RowGet(row, c) ==
    IF \E j \in 1..Len(row) : row[j].key = c
    THEN row[CHOOSE j \in 1..Len(row) : row[j].key = c].val
    ELSE Absent

\* dtype inference of one column of raw cells
InferDtype(cells) ==
    IF \E i \in DOMAIN cells : cells[i].t = "str" THEN "object"
    ELSE IF \A i \in DOMAIN cells : cells[i].t # "num" THEN "object"
    ELSE IF \E i \in DOMAIN cells : cells[i].t # "num" THEN "float64"
    ELSE "int64"

\* a missing key or a null of a numeric column becomes NaN
FrameCell(dtype, cell) ==
    IF cell.t \in {"absent", "none"}
    THEN (IF dtype = "float64" THEN NaNCell ELSE None)
    ELSE cell

DataFrame(data) ==
    LET columns == FrameColumns(data)
        raw(c)  == [i \in 1..Len(data) |-> RowGet(data[i], c)]
    IN  [len     |-> Len(data),
         columns |-> columns,
         dtype   |-> [c \in Range(columns) |-> InferDtype(raw(c))],
         col     |-> [c \in Range(columns) |->
                        [i \in 1..Len(data) |-> FrameCell(InferDtype(raw(c)), raw(c)[i])]]]

\* df.select_dtypes(include=[np.number]).columns
NumericColumns(frame) ==
    SelectSeq(frame.columns, LAMBDA c : frame.dtype[c] \in {"int64", "float64"})

HasNaN(frame, c) == \E i \in 1..frame.len : frame.col[c][i].t = "nan"

\* the non-missing values of a numeric column, in row order (series.dropna())
DropNa(frame, c) ==
    LET nums == SelectSeq(frame.col[c], LAMBDA e : e.t = "num")
    IN  [i \in 1..Len(nums) |-> nums[i].v]

-----------------------------------------------------------------------------
(* list.sort(key=..., reverse=True): descending by key and stable, records  *)
(* of equal key keep their relative order.  Gt(a, b): key(a) > key(b).      *)

SortDescending(s, Gt(_, _)) ==
    LET pos(i) == 1 + Cardinality({j \in 1..Len(s) :
                        Gt(s[j], s[i]) \/ (~Gt(s[i], s[j]) /\ j < i)})
    IN  [p \in 1..Len(s) |-> s[CHOOSE i \in 1..Len(s) : pos(i) = p]]

\* Records emitted by a per-column loop: step(c) is <<>> when the column
\* yields nothing (its step raised and was caught, or found nothing).
\* Concatenation of ss[lo..hi], by halving
RECURSIVE ConcatRange(_, _, _)
ConcatRange(ss, lo, hi) ==
    IF lo > hi THEN <<>>
    ELSE IF lo = hi THEN ss[lo]
    ELSE LET mid == (lo + hi) \div 2
         IN  ConcatRange(ss, lo, mid) \o ConcatRange(ss, mid + 1, hi)

Flatten(ss) == ConcatRange(ss, 1, Len(ss))

ForEach(cols, step(_)) == Flatten([i \in 1..Len(cols) |-> step(cols[i])])

-----------------------------------------------------------------------------
(* get_correlations *)

CorrThreshold100 == 30

StrongThreshold100 == 70

\* Pearson correlation of two columns over the rows where both are present
\* (DataFrame.corr): sign(B) * sqrt(B^2 / (A*C)), NaN when a variance is 0.
Corr(frame, c1, c2) ==
    LET rows == {i \in 1..frame.len :
                    frame.col[c1][i].t = "num" /\ frame.col[c2][i].t = "num"}
        x(i) == IF i \in rows THEN frame.col[c1][i].v ELSE 0
        y(i) == IF i \in rows THEN frame.col[c2][i].v ELSE 0
        m    == Cardinality(rows)
        Sx   == SeqSum([i \in 1..frame.len |-> x(i)])
        Sy   == SeqSum([i \in 1..frame.len |-> y(i)])
        A    == m * SeqSum([i \in 1..frame.len |-> x(i) * x(i)]) - Sx * Sx
        C    == m * SeqSum([i \in 1..frame.len |-> y(i) * y(i)]) - Sy * Sy
        B    == m * SeqSum([i \in 1..frame.len |-> x(i) * y(i)]) - Sx * Sy
        r2   == RatMul(Rat(B, A), Rat(B, C))
    IN  IF A = 0 \/ C = 0 THEN NaN
        ELSE [k |-> "sqrt", n |-> Sign(B) * r2.n, d |-> r2.d]

\* round(2) of a correlation r in [-1, 1], in hundredths: the integer nearest
\* to 100*r, an exact half going to the even neighbour.
Round2(r) ==
    LET atLeast(h) == h = 0 \/ CmpPos((2 * h - 1) * (2 * h - 1), 40000, Abs(r.n), r.d) <= 0
        h   == CHOOSE h \in 0..100 : atLeast(h) /\ ~atLeast(h + 1)
        tie == h > 0 /\ CmpPos((2 * h - 1) * (2 * h - 1), 40000, Abs(r.n), r.d) = 0
    IN  IF IsNaN(r) THEN NaN
        ELSE Rat(Sign(r.n) * (IF tie /\ h % 2 = 1 THEN h - 1 ELSE h), 100)

\* abs(x) >= t/100
AbsGe100(x, t) == ~IsNaN(x) /\ ~RatLt(RatAbs(x), Rat(t, 100))

\* abs(x) > t/100 for a rounded score x; False for NaN
AbsGt100(x, t) == ~IsNaN(x) /\ RatGt(RatAbs(x), Rat(t, 100))

CorrelationRecord(c1, c2, v) ==
    [feature1 |-> c1, feature2 |-> c2, score |-> v,
     description |->
        IF RatGt(v, Rat(StrongThreshold100, 100)) THEN "strong positive"
        ELSE IF RatGt(v, Rat(CorrThreshold100, 100)) THEN "moderate positive"
        ELSE IF RatLt(v, Rat(-StrongThreshold100, 100)) THEN "strong negative"
        ELSE "moderate negative"]

RECURSIVE CorrelationPairs(_, _, _, _)
CorrelationPairs(frame, cols, i, j) ==
    IF i > Len(cols) THEN <<>>
    ELSE IF j > Len(cols) THEN CorrelationPairs(frame, cols, i + 1, i + 2)
    ELSE LET v == Round2(Corr(frame, cols[i], cols[j]))
         IN  (IF AbsGt100(v, CorrThreshold100)
              THEN <<CorrelationRecord(cols[i], cols[j], v)>> ELSE <<>>)
             \o CorrelationPairs(frame, cols, i, j + 1)

get_correlations(frame) ==
    LET cols == NumericColumns(frame)
    IN  IF Len(cols) < 2 THEN <<>>
        ELSE SortDescending(CorrelationPairs(frame, cols, 1, 2),
                            LAMBDA a, b : RatGt(RatAbs(a.score), RatAbs(b.score)))

-----------------------------------------------------------------------------
(* LinearRegression().fit(np.arange(len(df)), df[col].values) *)

\* fit() rejects a target holding NaN (ValueError), caught by the caller's
\* per-column try.
FitRaises(frame, c) == HasNaN(frame, c)

\* Column moments against the row index x = 0..n-1:
\* A = n*Sxx - Sx^2, B = n*Sxy - Sx*Sy, C = n*Syy - Sy^2.
Moments(y) ==
    LET n  == Len(y)
        Sx == SeqSum([i \in 1..n |-> i - 1])
        Sy == SeqSum(y)
    IN  [n |-> n, Sx |-> Sx, Sy |-> Sy,
         A |-> n * SeqSum([i \in 1..n |-> (i - 1) * (i - 1)]) - Sx * Sx,
         B |-> n * SeqSum([i \in 1..n |-> (i - 1) * y[i]]) - Sx * Sy,
         C |-> n * SeqSum([i \in 1..n |-> y[i] * y[i]]) - Sy * Sy]

\* Ordinary least squares; with one row the slope is 0.
LinearFit(y) ==
    LET m    == Moments(y)
        coef == IF m.A = 0 THEN Int2Rat(0) ELSE Rat(m.B, m.A)
    IN  [coef |-> coef,
         intercept |-> RatSub(Rat(m.Sy, m.n), RatMul(coef, Rat(m.Sx, m.n)))]

Predict(model, x) == RatAdd(model.intercept, RatMul(model.coef, Int2Rat(x)))

-----------------------------------------------------------------------------
(* get_trend_analysis *)

MaxTrendPoints == 20

\* int(idx) for idx in np.linspace(0, n - 1, min(20, n))
TrendIndices(n) ==
    LET m == IF n < MaxTrendPoints THEN n ELSE MaxTrendPoints
    IN  [q \in 1..m |-> IF m = 1 THEN 0 ELSE ((q - 1) * (n - 1)) \div (m - 1)]

TrendRecord(frame, c) ==
    LET model == LinearFit(DropNa(frame, c))
        predicted_start == Predict(model, 0)
        predicted_end   == Predict(model, frame.len - 1)
        \* abs(predicted_start) > 1e-10: the start is a fraction whose
        \* denominator is far below 1e10, so it passes unless it is 0
        percent_change ==
            IF predicted_start.n # 0
            THEN RatDiv(RatMul(Int2Rat(100), RatSub(predicted_end, predicted_start)),
                        RatAbs(predicted_start))
            ELSE Int2Rat(0)
        idx == TrendIndices(frame.len)
    IN  [feature   |-> c,
         direction |-> IF RatGt(model.coef, Rat(1, 100)) THEN "up"
                       ELSE IF RatLt(model.coef, Rat(-1, 100)) THEN "down"
                       ELSE "stable",
         magnitude |-> RatAbs(percent_change),
         data      |-> [q \in DOMAIN idx |-> [x |-> idx[q], y |-> Predict(model, idx[q])]]]

TrendStep(frame, c) ==
    IF FitRaises(frame, c) THEN <<>> ELSE <<TrendRecord(frame, c)>>

get_trend_analysis(frame) ==
    LET cols == NumericColumns(frame)
    IN  IF Len(cols) < 1 THEN <<>>
        ELSE SortDescending(ForEach(cols, LAMBDA c : TrendStep(frame, c)),
                            LAMBDA a, b : RatGt(a.magnitude, b.magnitude))

-----------------------------------------------------------------------------
(* detect_anomalies *)

\* The row guard one short
MinRowsOffByOne == 10 - 1

MinRows == 10

ZThreshold == 3

ZMedium == 4

ZHigh == 5

\* np.abs(stats.zscore(series))[i] with the population standard deviation:
\* |n*y[i] - Sy| / sqrt(n*Syy - Sy^2).  NaN for every row when the column holds
\* a NaN or has no variance.
ZScore(frame, c, i) ==
    LET y == DropNa(frame, c)
        m == Moments(y)
        D == m.n * y[i] - m.Sy
    IN  IF HasNaN(frame, c) \/ m.C = 0 THEN NaN ELSE Sqrt(Rat(D * D, m.C))

\* z > t for a z-score z; False for NaN
ZGt(z, t) == ~IsNaN(z) /\ CmpPos(z.n, z.d, t * t, 1) > 0

\* Severity decided by the flagging threshold alone
SeverityByThreshold(z) ==
    IF ZGt(z, ZThreshold) THEN "high" ELSE IF ZGt(z, ZMedium) THEN "medium" ELSE "low"

Severity(z) ==
    IF ZGt(z, ZHigh) THEN "high" ELSE IF ZGt(z, ZMedium) THEN "medium" ELSE "low"

Mean(y) == Rat(SeqSum(y), Len(y))

AnomalyStep(frame, c) ==
    LET hit(i) == IF ZGt(ZScore(frame, c, i), ZThreshold)
                  THEN <<[feature  |-> c,
                          value    |-> frame.col[c][i].v,
                          expected |-> Mean(DropNa(frame, c)),
                          severity |-> Severity(ZScore(frame, c, i)),
                          index    |-> i - 1]>>
                  ELSE <<>>
    IN  Flatten([i \in 1..frame.len |-> hit(i)])

severity_rank(sev) ==
    CASE sev = "high" -> 3 [] sev = "medium" -> 2 [] sev = "low" -> 1 [] OTHER -> 0

\* Ascending sort followed by a reversal: equal ranks end up in reverse order
sort_then_reverse(found) ==
    LET n == Len(found)
        backwards == [i \in 1..n |-> found[n + 1 - i]]
    IN  SortDescending(backwards,
                       LAMBDA a, b : severity_rank(a.severity) > severity_rank(b.severity))

sort_by_severity(found) ==
    SortDescending(found, LAMBDA a, b : severity_rank(a.severity) > severity_rank(b.severity))

AnomaliesFound(frame) ==
    ForEach(NumericColumns(frame), LAMBDA c : AnomalyStep(frame, c))

detect_anomalies(frame) ==
    LET cols == NumericColumns(frame)
    IN  IF Len(cols) < 1 \/ frame.len < MinRows THEN <<>>
        ELSE sort_by_severity(AnomaliesFound(frame))

-----------------------------------------------------------------------------
(* make_predictions *)

HistoryPoints == 10

FuturePoints == 5

\* Python's min(a, b) and max(a, b): b is taken only when the comparison with
\* a succeeds, and every comparison with NaN fails.
PyMin(a, b) == IF ~IsNaN(a) /\ ~IsNaN(b) /\ RatLt(b, a) THEN b ELSE a

PyMax(a, b) == IF ~IsNaN(a) /\ ~IsNaN(b) /\ RatGt(b, a) THEN b ELSE a

\* 1 - ss_residual / ss_total, evaluated whatever ss_total is: 0/0 is NaN
RSquaredUnguarded(ss_residual, ss_total) ==
    IF ss_total.n = 0 THEN NaN
    ELSE RatSub(Int2Rat(1), RatDiv(ss_residual, ss_total))

\* r_squared = 1 - (ss_residual / ss_total) if ss_total > 0 else 0
RSquared(ss_residual, ss_total) ==
    IF RatGt(ss_total, Int2Rat(0))
    THEN RatSub(Int2Rat(1), RatDiv(ss_residual, ss_total))
    ELSE Int2Rat(0)

\* float(max(0, min(1, r_squared)))
Clamp01(r) == PyMax(Int2Rat(0), PyMin(Int2Rat(1), r))

PredictionRecord(frame, c) ==
    LET y     == DropNa(frame, c)
        m     == Moments(y)
        model == LinearFit(y)
        next_point  == frame.len
        ss_total    == Rat(m.C, m.n)
        \* sum((y - y_pred)^2) of the least-squares line: ss_total - B^2/(n*A)
        ss_residual == IF m.A = 0 THEN ss_total
                       ELSE RatSub(ss_total,
                                   RatDiv(RatMul(Rat(m.B, m.A), Int2Rat(m.B)), Int2Rat(m.n)))
        first == IF frame.len > HistoryPoints THEN frame.len - HistoryPoints ELSE 0
        \* np.linspace(max(0, n - 10), n - 1, 10) truncated to row indices
        hist(q) == first + ((q - 1) * (frame.len - 1 - first)) \div (HistoryPoints - 1)
    IN  [feature    |-> c,
         current    |-> y[Len(y)],
         predicted  |-> Predict(model, next_point),
         confidence |-> Clamp01(RSquared(ss_residual, ss_total)),
         timeline   |-> [q \in 1..HistoryPoints |->
                            [time |-> hist(q), value |-> Int2Rat(y[hist(q) + 1])]]
                        \o [q \in 1..FuturePoints |->
                            [time |-> next_point + q - 1,
                             value |-> Predict(model, next_point + q - 1)]]]

PredictionStep(frame, c) ==
    IF FitRaises(frame, c) THEN <<>> ELSE <<PredictionRecord(frame, c)>>

make_predictions(frame) ==
    LET cols == NumericColumns(frame)
    IN  IF Len(cols) < 1 \/ frame.len < MinRows THEN <<>>
        ELSE SortDescending(ForEach(cols, LAMBDA c : PredictionStep(frame, c)),
                            LAMBDA a, b : RatGt(a.confidence, b.confidence))

-----------------------------------------------------------------------------
(* get_statistics *)

\* the k-th smallest value of y
KthSmallest(y, k) ==
    CHOOSE v \in Range(y) :
        /\ Cardinality({i \in DOMAIN y : y[i] < v}) < k
        /\ k <= Cardinality({i \in DOMAIN y : y[i] <= v})

Median(y) ==
    LET n == Len(y)
    IN  IF n % 2 = 1 THEN Int2Rat(KthSmallest(y, (n + 1) \div 2))
        ELSE Rat(KthSmallest(y, n \div 2) + KthSmallest(y, n \div 2 + 1), 2)

\* Series.std(): the sample standard deviation (ddof = 1), NaN for one value
Std(y) ==
    LET n == Len(y)
        S == SeqSum(y)
    IN  IF n < 2 THEN NaN
        ELSE Sqrt(Rat(n * SeqSum([i \in 1..n |-> y[i] * y[i]]) - S * S, n * (n - 1)))

StatisticsStep(frame, c) ==
    LET series == DropNa(frame, c)
    IN  IF Len(series) > 0
        THEN <<[feature |-> c,
                mean    |-> Mean(series),
                median  |-> Median(series),
                min     |-> KthSmallest(series, 1),
                max     |-> KthSmallest(series, Len(series)),
                stdDev  |-> Std(series)]>>
        ELSE <<>>

get_statistics(frame) ==
    LET cols == NumericColumns(frame)
    IN  IF Len(cols) < 1 THEN <<>>
        ELSE ForEach(cols, LAMBDA c : StatisticsStep(frame, c))

-----------------------------------------------------------------------------
(* get_clustering_info *)

NClusters == 3

Returned(out) == [raised |-> FALSE, exc |-> "", out |-> out]

Raised(e) == [raised |-> TRUE, exc |-> e, out |-> <<>>]

\* the distinct rows of the numeric sub-frame
DistinctRows(frame) ==
    LET cols == NumericColumns(frame)
    IN  {[j \in 1..Len(cols) |-> frame.col[cols[j]][i]] : i \in 1..frame.len}

\* One record per centre of KMeans(n_clusters=3).  The sizes and the feature
\* importances are the library's result and are not modelled.
ClusterRecords == [i \in 1..NClusters |-> [id |-> i]]

\* What the call can do.  StandardScaler passes NaN through and KMeans then
\* rejects it (ValueError).  With fewer distinct rows than centres KMeans can
\* leave the last centres without members; np.bincount is then shorter than
\* the centre list and cluster_sizes[i] raises IndexError, depending on which
\* labels the library assigns.
get_clustering_info(frame) ==
    LET cols == NumericColumns(frame)
    IN  IF Len(cols) < 2 THEN {Returned(<<>>)}
        ELSE IF frame.len < MinRows THEN {Returned(<<>>)}
        ELSE IF \E j \in 1..Len(cols) : HasNaN(frame, cols[j])
             THEN {Raised("ValueError: Input X contains NaN.")}
        ELSE IF Cardinality(DistinctRows(frame)) < NClusters
             THEN {Raised("IndexError: index out of bounds"), Returned(ClusterRecords)}
        ELSE {Returned(ClusterRecords)}

-----------------------------------------------------------------------------
(* Which columns each analyzer computes on once its size guards have passed, *)
(* and which of them its per-column try/except drops.                        *)

Analyzers == {"get_correlations", "get_trend_analysis", "detect_anomalies",
              "make_predictions", "get_clustering_info", "get_statistics"}

Entered(frame, name) ==
    LET cols == NumericColumns(frame)
    IN  CASE name = "get_correlations"    -> IF Len(cols) < 2 THEN <<>> ELSE cols
          [] name = "get_trend_analysis"  -> IF Len(cols) < 1 THEN <<>> ELSE cols
          [] name = "detect_anomalies"    ->
                IF Len(cols) < 1 \/ frame.len < MinRows THEN <<>> ELSE cols
          [] name = "make_predictions"    ->
                IF Len(cols) < 1 \/ frame.len < MinRows THEN <<>> ELSE cols
          [] name = "get_clustering_info" ->
                IF Len(cols) < 2 \/ frame.len < MinRows THEN <<>> ELSE cols
          [] name = "get_statistics"      -> IF Len(cols) < 1 THEN <<>> ELSE cols

\* logger.error(...) of the columns whose fit raised inside the loop
FitErrors(frame, name) ==
    LET failed == SelectSeq(Entered(frame, name), LAMBDA c : FitRaises(frame, c))
    IN  [i \in 1..Len(failed) |-> [where |-> name, column |-> failed[i]]]

-----------------------------------------------------------------------------
(* The responses *)

Clause(text, args) == [text |-> text, args |-> args]

\* The summary with the three clauses appended whether or not the lists are empty
SummaryUnconditional(frame, corrs, anoms, trnds) ==
    <<Clause("Dataset has {} rows and {} columns. ", <<frame.len, Len(frame.columns)>>),
      Clause("Analysis includes correlations, trends, anomalies, and predictions.", <<>>),
      Clause(" Found {} significant correlations.", <<Len(corrs)>>),
      Clause(" Detected {} potential anomalies.", <<Len(anoms)>>),
      Clause(" Identified {} trends in the data.", <<Len(trnds)>>)>>

\* The summary string, as the sequence of its formatted clauses.
Summary(frame, corrs, anoms, trnds) ==
    <<Clause("Dataset has {} rows and {} columns. ", <<frame.len, Len(frame.columns)>>),
      Clause("Analysis includes correlations, trends, anomalies, and predictions.", <<>>)>>
    \o (IF corrs # <<>>
        THEN <<Clause(" Found {} significant correlations.", <<Len(corrs)>>)>> ELSE <<>>)
    \o (IF anoms # <<>>
        THEN <<Clause(" Detected {} potential anomalies.", <<Len(anoms)>>)>> ELSE <<>>)
    \o (IF trnds # <<>>
        THEN <<Clause(" Identified {} trends in the data.", <<Len(trnds)>>)>> ELSE <<>>)

EnhancedInsightsResponse(summary, corrs, trnds, anoms, preds, clus, stats) ==
    [status |-> 200, summary |-> summary, correlations |-> corrs, trends |-> trnds,
     anomalies |-> anoms, predictions |-> preds, clusters |-> clus, statistics |-> stats]

\* An except clause that answers with what the try block had computed so far
PartialResponse(status_code, detail) ==
    [status |-> 200, summary |-> detail, correlations |-> correlations,
     trends |-> trends, anomalies |-> anomalies, predictions |-> predictions,
     clusters |-> clusters, statistics |-> statistics]

HTTPException(status_code, detail) == [status |-> status_code, detail |-> detail]

ErrorDetail(e) == <<"Error analyzing data: ", e>>

NoResponse == [status |-> 0]

NoFrame == [len |-> 0, columns |-> <<>>, dtype |-> <<>>, col |-> <<>>]

-----------------------------------------------------------------------------
(* The handlers, one step per statement of their try blocks *)

Init ==
    /\ endpoint \in {"/api/insights", "/api/insights/legacy"}
    /\ request \in Requests
    /\ pc = "start"
    /\ df = NoFrame
    /\ correlations = <<>>
    /\ trends = <<>>
    /\ anomalies = <<>>
    /\ predictions = <<>>
    /\ clusters = <<>>
    /\ statistics = <<>>
    /\ exc = ""
    /\ tried = [a \in Analyzers |-> <<>>]
    /\ log = <<>>
    /\ returned = {}
    /\ response = NoResponse

\* df = pd.DataFrame(dataset.data), in either handler
Parse ==
    /\ pc = "start"
    /\ df' = DataFrame(request.data)
    /\ pc' = IF endpoint = "/api/insights" THEN "get_correlations" ELSE "generate_insights"
    /\ UNCHANGED <<returned, endpoint, request, correlations, trends, anomalies, predictions,
                   clusters, statistics, exc, tried, log, response>>

Correlations ==
    /\ pc = "get_correlations"
    /\ correlations' = get_correlations(df)
    /\ tried' = [tried EXCEPT !["get_correlations"] = Entered(df, "get_correlations")]
    /\ returned' = returned \cup {"get_correlations"}
    /\ pc' = "get_trend_analysis"
    /\ UNCHANGED <<endpoint, request, df, trends, anomalies, predictions, clusters,
                   statistics, exc, log, response>>

Trends ==
    /\ pc = "get_trend_analysis"
    /\ trends' = get_trend_analysis(df)
    /\ tried' = [tried EXCEPT !["get_trend_analysis"] = Entered(df, "get_trend_analysis")]
    /\ log' = log \o FitErrors(df, "get_trend_analysis")
    /\ returned' = returned \cup {"get_trend_analysis"}
    /\ pc' = "detect_anomalies"
    /\ UNCHANGED <<endpoint, request, df, correlations, anomalies, predictions, clusters,
                   statistics, exc, response>>

Anomalies ==
    /\ pc = "detect_anomalies"
    /\ anomalies' = detect_anomalies(df)
    /\ tried' = [tried EXCEPT !["detect_anomalies"] = Entered(df, "detect_anomalies")]
    /\ returned' = returned \cup {"detect_anomalies"}
    /\ pc' = "make_predictions"
    /\ UNCHANGED <<endpoint, request, df, correlations, trends, predictions, clusters,
                   statistics, exc, log, response>>

Predictions ==
    /\ pc = "make_predictions"
    /\ predictions' = make_predictions(df)
    /\ tried' = [tried EXCEPT !["make_predictions"] = Entered(df, "make_predictions")]
    /\ log' = log \o FitErrors(df, "make_predictions")
    /\ returned' = returned \cup {"make_predictions"}
    /\ pc' = "get_clustering_info"
    /\ UNCHANGED <<endpoint, request, df, correlations, trends, anomalies, clusters,
                   statistics, exc, response>>

\* get_clustering_info has no try of its own: what it raises leaves the
\* handler's try block.
Clusters ==
    /\ pc = "get_clustering_info"
    /\ \E o \in get_clustering_info(df) :
          /\ clusters' = o.out
          /\ exc' = o.exc
          /\ pc' = IF o.raised THEN "except" ELSE "get_statistics"
          /\ returned' = IF o.raised THEN returned ELSE returned \cup {"get_clustering_info"}
    /\ tried' = [tried EXCEPT !["get_clustering_info"] = Entered(df, "get_clustering_info")]
    /\ UNCHANGED <<endpoint, request, df, correlations, trends, anomalies, predictions,
                   statistics, log, response>>

Statistics ==
    /\ pc = "get_statistics"
    /\ statistics' = get_statistics(df)
    /\ tried' = [tried EXCEPT !["get_statistics"] = Entered(df, "get_statistics")]
    /\ returned' = returned \cup {"get_statistics"}
    /\ pc' = "return"
    /\ UNCHANGED <<endpoint, request, df, correlations, trends, anomalies, predictions,
                   clusters, exc, log, response>>

Return ==
    /\ pc = "return"
    /\ response' = EnhancedInsightsResponse(Summary(df, correlations, anomalies, trends),
                        correlations, trends, anomalies, predictions, clusters, statistics)
    /\ pc' = "done"
    /\ UNCHANGED <<returned, endpoint, request, df, correlations, trends, anomalies, predictions,
                   clusters, statistics, exc, tried, log>>

\* insights = generate_insights(df): the module defines no such name, so the
\* call raises NameError.
LegacyInsights ==
    /\ pc = "generate_insights"
    /\ exc' = "NameError: name 'generate_insights' is not defined"
    /\ pc' = "except"
    /\ UNCHANGED <<returned, endpoint, request, df, correlations, trends, anomalies, predictions,
                   clusters, statistics, tried, log, response>>

\* except Exception as e: log, then raise HTTPException(status_code=500, ...)
Except ==
    /\ pc = "except"
    /\ log' = Append(log, [where |-> "analyze_data", column |-> exc])
    /\ response' = HTTPException(500, ErrorDetail(exc))
    /\ pc' = "done"
    /\ UNCHANGED <<returned, endpoint, request, df, correlations, trends, anomalies, predictions,
                   clusters, statistics, exc, tried>>

Next ==
    \/ Parse
    \/ Correlations
    \/ Trends
    \/ Anomalies
    \/ Predictions
    \/ Clusters
    \/ Statistics
    \/ Return
    \/ LegacyInsights
    \/ Except

Spec == Init /\ [][Next]_vars

-----------------------------------------------------------------------------
(* Properties *)

Insights == endpoint = "/api/insights"

Legacy == endpoint = "/api/insights/legacy"

Succeeded == pc = "done" /\ response.status = 200

Failed == pc = "done" /\ response.status = 500

Features(records) == {records[i].feature : i \in DOMAIN records}

Complete(c) == ~HasNaN(df, c)

ColumnSet == Range(NumericColumns(df))

\* C1: every legacy request ends in a success response carrying the field
\* insights, never in the status-500 outcome.
C1_LegacySucceeds ==
    (Legacy /\ pc = "done") =>
        /\ response.status = 200
        /\ "insights" \in DOMAIN response

\* C2: a numeric column with a missing value is dropped by the trend and the
\* prediction analyzers only, every other column keeps its record, and the
\* request still ends in a success response.
C2_MissingValueStillSucceeds ==
    (Insights /\ pc = "done" /\ \E c \in ColumnSet : ~Complete(c)) =>
        /\ response.status = 200
        /\ Features(response.trends) = {c \in ColumnSet : Complete(c)}
        /\ Features(response.statistics) = ColumnSet
        /\ df.len >= 10 =>
              Features(response.predictions) = {c \in ColumnSet : Complete(c)}

\* C3: a request in which an analyzer raised ends in the status-500 response
\* that carries the message and nothing else, none of the lists computed
\* before the failure; a request in which none raised ends in a success
\* response carrying all seven fields.
C3_AllOrNothing ==
    (Insights /\ pc = "done") =>
        IF exc # ""
        THEN /\ DOMAIN response = {"status", "detail"}
             /\ response.status = 500
             /\ response.detail = <<"Error analyzing data: ", exc>>
        ELSE /\ response.status = 200
             /\ DOMAIN response = {"status", "summary", "correlations", "trends",
                                   "anomalies", "predictions", "clusters", "statistics"}

C3_Witness ==
    /\ Insights /\ Failed
    /\ correlations # <<>> /\ trends # <<>> /\ predictions # <<>>

\* The dataset of C4: 11 rows, one numeric column, 5 in ten rows and 500 in one.
C4_Dataset ==
    /\ df.len = 11
    /\ Len(df.columns) = 1
    /\ Cardinality({i \in 1..11 : df.col[df.columns[1]][i] = Num(5)}) = 10
    /\ Cardinality({i \in 1..11 : df.col[df.columns[1]][i] = Num(500)}) = 1

\* C4 as stated: the row holding 500 is reported with severity "high" and an
\* expected value of about 5 (within 1 of it).
C4_HighAndFive ==
    (C4_Dataset /\ "detect_anomalies" \in returned) =>
        \E i \in DOMAIN anomalies :
            /\ anomalies[i].value = 500
            /\ anomalies[i].severity = "high"
            /\ RatLt(RatAbs(RatSub(anomalies[i].expected, Int2Rat(5))), Int2Rat(1))

\* C4 amended: detect_anomalies reports exactly the row holding 500, with
\* severity "low" (its z-score is sqrt(10), about 3.16) and with expected equal
\* to the column mean, 50.
C4_LowAndMean ==
    (C4_Dataset /\ "detect_anomalies" \in returned) =>
        /\ Len(anomalies) = 1
        /\ anomalies[1].value = 500
        /\ df.col[df.columns[1]][anomalies[1].index + 1] = Num(500)
        /\ anomalies[1].severity = "low"
        /\ anomalies[1].expected = Int2Rat(50)

C4_Witness == C4_Dataset /\ Succeeded /\ Len(response.anomalies) = 1

\* Position of an anomaly record in discovery order: its column's position
\* among the numeric columns, then its row.
ColumnPosition(c) == CHOOSE j \in 1..Len(NumericColumns(df)) : NumericColumns(df)[j] = c

DiscoveredBefore(a, b) ==
    \/ ColumnPosition(a.feature) < ColumnPosition(b.feature)
    \/ a.feature = b.feature /\ a.index < b.index

Rank(sev) == IF sev = "high" THEN 3 ELSE IF sev = "medium" THEN 2 ELSE 1

\* C5: the anomaly list is in non-increasing order of severity rank, and
\* records of equal severity are in discovery order.
C5_SortedAndStable ==
    \A i, j \in DOMAIN anomalies :
        i < j =>
            /\ Rank(anomalies[i].severity) >= Rank(anomalies[j].severity)
            /\ anomalies[i].severity = anomalies[j].severity =>
                  DiscoveredBefore(anomalies[i], anomalies[j])

\* all three severities, a high record discovered after a low one, and two
\* records of one severity from different columns
C5_Witness ==
    /\ {anomalies[i].severity : i \in DOMAIN anomalies} = {"high", "medium", "low"}
    /\ \E i, j \in DOMAIN anomalies :
          /\ anomalies[i].severity = "high" /\ anomalies[j].severity = "low"
          /\ DiscoveredBefore(anomalies[j], anomalies[i])
    /\ \E i, j \in DOMAIN anomalies :
          /\ i # j /\ anomalies[i].severity = anomalies[j].severity
          /\ anomalies[i].feature # anomalies[j].feature

\* C6: with fewer than 2 numeric columns the correlation and clustering
\* analyzers return empty lists, and with fewer than 10 rows the anomaly,
\* prediction and clustering analyzers do, none of them having computed on
\* any column.
C6_SizeGuards ==
    /\ Len(NumericColumns(df)) < 2 =>
          /\ correlations = <<>> /\ clusters = <<>>
          /\ tried["get_correlations"] = <<>> /\ tried["get_clustering_info"] = <<>>
          /\ Insights => exc = ""
    /\ df.len < 10 =>
          /\ anomalies = <<>> /\ predictions = <<>> /\ clusters = <<>>
          /\ tried["detect_anomalies"] = <<>> /\ tried["make_predictions"] = <<>>
          /\ tried["get_clustering_info"] = <<>>
          /\ Insights => exc = ""

C6_Witness ==
    /\ Insights /\ Succeeded
    /\ df.len = 9 /\ Len(NumericColumns(df)) = 3
    /\ response.trends # <<>> /\ response.statistics # <<>>
    /\ response.anomalies = <<>> /\ response.predictions = <<>> /\ response.clusters = <<>>

\* |r| > sqrt(num/den) for a correlation r; False for NaN
ExceedsSq(r, num, den) == ~IsNaN(r) /\ CmpPos(Abs(r.n), r.d, num, den) > 0

\* the rounded score, in hundredths
Hundredths(score) == score.n * (100 \div score.d)

\* score is r to the nearest hundredth: same sign, and 100*|r| within 1/2 of it
IsRounded(score, r) ==
    LET h == Abs(Hundredths(score))
    IN  /\ ~IsNaN(r)
        /\ 100 % score.d = 0
        /\ Hundredths(score) # 0 => Sign(Hundredths(score)) = Sign(r.n)
        /\ h > 0 => CmpPos((2 * h - 1) * (2 * h - 1), 40000, Abs(r.n), r.d) <= 0
        /\ CmpPos(Abs(r.n), r.d, (2 * h + 1) * (2 * h + 1), 40000) <= 0

\* The correlation list holds exactly one record for each unordered pair of
\* distinct numeric columns whose |correlation| exceeds sqrt(num/den) and no
\* other record; each score is the pair's correlation rounded to 2 decimals
\* with |score| > 0.3; the list is in non-increasing order of |score|.
CorrelationsExactly(num, den) ==
    LET cols  == NumericColumns(df)
        pairs == {p \in (1..Len(cols)) \X (1..Len(cols)) :
                    /\ p[1] < p[2]
                    /\ ExceedsSq(Corr(df, cols[p[1]], cols[p[2]]), num, den)}
        names(k) == {correlations[k].feature1, correlations[k].feature2}
    IN  "get_correlations" \in returned =>
          /\ \A p \in pairs :
                Cardinality({k \in DOMAIN correlations : names(k) = {cols[p[1]], cols[p[2]]}}) = 1
          /\ \A k \in DOMAIN correlations :
                /\ correlations[k].feature1 # correlations[k].feature2
                /\ \E p \in pairs : names(k) = {cols[p[1]], cols[p[2]]}
                /\ IsRounded(correlations[k].score,
                             Corr(df, correlations[k].feature1, correlations[k].feature2))
                /\ Abs(Hundredths(correlations[k].score)) > 30
          /\ \A k \in 1..(Len(correlations) - 1) :
                Abs(Hundredths(correlations[k].score))
                    >= Abs(Hundredths(correlations[k + 1].score))

\* C7 as stated: one record for each pair whose absolute correlation exceeds
\* 0.3 (r^2 > 9/100).
C7_AboveThreeTenths == CorrelationsExactly(9, 100)

\* C7 amended: one record for each pair whose correlation, rounded to 2
\* decimals, exceeds 0.3 in absolute value, that is whose absolute correlation
\* exceeds 0.305 (r^2 > 3721/40000); a pair with 0.3 < |r| <= 0.305 has none.
C7_AboveRoundedThreeTenths == CorrelationsExactly(3721, 40000)

\* two records that the sort has put in the other order than the pair loop
\* found them in, a negative score, and a pair that the rounding leaves out
C7_Witness ==
    /\ Len(correlations) = 2
    /\ ColumnPosition(correlations[1].feature1) > ColumnPosition(correlations[2].feature1)
    /\ Abs(Hundredths(correlations[1].score)) > Abs(Hundredths(correlations[2].score))
    /\ Hundredths(correlations[1].score) < 0
    /\ \E c1, c2 \in ColumnSet :
          /\ ExceedsSq(Corr(df, c1, c2), 9, 100)
          /\ ~ExceedsSq(Corr(df, c1, c2), 3721, 40000)

Constant(c) ==
    /\ Complete(c)
    /\ \A i, j \in 1..df.len : df.col[c][i] = df.col[c][j]

\* C8: every prediction record has a confidence in [0, 1], and a constant
\* column of at least 10 rows has a record, whose confidence is 0.
C8_ConfidenceInUnitInterval ==
    "make_predictions" \in returned =>
        /\ \A i \in DOMAIN predictions :
              /\ ~IsNaN(predictions[i].confidence)
              /\ ~RatLt(predictions[i].confidence, Int2Rat(0))
              /\ ~RatGt(predictions[i].confidence, Int2Rat(1))
        /\ \A c \in ColumnSet :
              (Constant(c) /\ df.len >= 10) =>
                  \E i \in DOMAIN predictions :
                      /\ predictions[i].feature = c
                      /\ predictions[i].confidence = Int2Rat(0)

C8_Witness ==
    /\ \E i \in DOMAIN predictions :
          Constant(predictions[i].feature) /\ predictions[i].confidence = Int2Rat(0)
    /\ \E i \in DOMAIN predictions : predictions[i].confidence = Int2Rat(1)
    /\ \E i \in DOMAIN predictions :
          /\ RatGt(predictions[i].confidence, Int2Rat(0))
          /\ RatLt(predictions[i].confidence, Int2Rat(1))

\* C9: no per-column step fails on a column without missing values, no
\* emitted record carries NaN, and a request of 0 or 1 rows does not fail.
C9_NoUndefinedValue ==
    /\ \A i \in DOMAIN log : log[i].where \in Analyzers => ~Complete(log[i].column)
    /\ \A i \in DOMAIN statistics :
          /\ ~IsNaN(statistics[i].mean) /\ ~IsNaN(statistics[i].median)
          /\ ~IsNaN(statistics[i].stdDev)
    /\ \A i \in DOMAIN trends : ~IsNaN(trends[i].magnitude)
    /\ \A i \in DOMAIN anomalies : ~IsNaN(anomalies[i].expected)
    /\ \A i \in DOMAIN predictions : ~IsNaN(predictions[i].confidence)
    /\ (Insights /\ pc = "done" /\ df.len <= 1) => response.status = 200

ClauseIndexes(summary, text) == {i \in DOMAIN summary : summary[i].text = text}

\* a clause is in the summary exactly when its list is non-empty, once, with
\* the list's length
ClauseMatches(summary, text, list) ==
    IF list = <<>> THEN ClauseIndexes(summary, text) = {}
    ELSE /\ Cardinality(ClauseIndexes(summary, text)) = 1
         /\ \A i \in ClauseIndexes(summary, text) : summary[i].args = <<Len(list)>>

\* C10: the summary of a success response states the row and column counts
\* of the posted data and holds each of the three clauses exactly when the
\* returned list is non-empty, with its length; for an empty data list all six
\* lists are empty and the summary states 0 rows and 0 columns and no clause.
C10_Summary ==
    (Insights /\ Succeeded) =>
        LET rows == Len(request.data)
            cols == Cardinality(UNION {Range(RowKeys(request.data[i])) : i \in 1..rows})
        IN  /\ response.summary[1].text = "Dataset has {} rows and {} columns. "
            /\ response.summary[1].args = <<rows, cols>>
            /\ ClauseMatches(response.summary, " Found {} significant correlations.",
                             response.correlations)
            /\ ClauseMatches(response.summary, " Detected {} potential anomalies.",
                             response.anomalies)
            /\ ClauseMatches(response.summary, " Identified {} trends in the data.",
                             response.trends)
            /\ rows = 0 =>
                  /\ response.correlations = <<>> /\ response.trends = <<>>
                  /\ response.anomalies = <<>> /\ response.predictions = <<>>
                  /\ response.clusters = <<>> /\ response.statistics = <<>>
                  /\ response.summary[1].args = <<0, 0>>
                  /\ Len(response.summary) = 2

C10_Witness ==
    /\ Insights /\ Succeeded
    /\ Len(response.summary) = 5
    /\ Len(response.correlations) # Len(response.anomalies)
    /\ Len(response.anomalies) # Len(response.trends)

====
